---- MODULE Spec2Model ----
(***************************************************************************)
(* A model of swagger_hunter.py: the candidate-URL generator, the endpoint *)
(* validator, the per-domain scanner and the asyncio orchestrator with its *)
(* shared semaphore and its sink lock.                                     *)
(*                                                                         *)
(* Text is modelled as a sequence of one-character strings, so that strip, *)
(* rstrip, lower and the substring test are computed and not assumed.      *)
(*                                                                         *)
(* Scheduling is asyncio's: one task runs at a time and keeps the event    *)
(* loop until it suspends (an await that has to wait) or returns.  Which   *)
(* runnable task the loop picks next, and the order in which responses     *)
(* arrive, are left open.                                                  *)
(***************************************************************************)
EXTENDS Integers, Sequences, FiniteSets, Bags, TLC

(***************************************************************************)
(* Bounds of the model.                                                    *)
(***************************************************************************)
\* longest input list handed to run
MaxDomains == 2

\* candidate URLs validated per domain: the first MaxCands of the generated list
MaxCands == 2

\* permits of the admission limiter in the model (the program has 100)
SemPermits == 2

(***************************************************************************)
(* Program constants.                                                      *)
(***************************************************************************)
ENDPOINTS_BASIC ==
    << <<"/", "s", "w", "a", "g", "g", "e", "r", ".", "j", "s", "o", "n">>,
       <<"/", "s", "w", "a", "g", "g", "e", "r", "/", "v", "1", "/", "s", "w", "a", "g", "g", "e", "r", ".", "j", "s", "o", "n">>,
       <<"/", "s", "w", "a", "g", "g", "e", "r", "/", "v", "2", "/", "s", "w", "a", "g", "g", "e", "r", ".", "j", "s", "o", "n">>,
       <<"/", "s", "w", "a", "g", "g", "e", "r", "/", "v", "3", "/", "s", "w", "a", "g", "g", "e", "r", ".", "j", "s", "o", "n">>,
       <<"/", "o", "p", "e", "n", "a", "p", "i", ".", "j", "s", "o", "n">>,
       <<"/", "o", "p", "e", "n", "a", "p", "i", "/", "v", "1", ".", "j", "s", "o", "n">>,
       <<"/", "o", "p", "e", "n", "a", "p", "i", "/", "v", "2", ".", "j", "s", "o", "n">>,
       <<"/", "a", "p", "i", "-", "d", "o", "c", "s">>,
       <<"/", "v", "2", "/", "a", "p", "i", "-", "d", "o", "c", "s">>,
       <<"/", "v", "3", "/", "a", "p", "i", "-", "d", "o", "c", "s">>,
       <<"/", "s", "w", "a", "g", "g", "e", "r", "-", "u", "i", ".", "h", "t", "m", "l">> >>

ENDPOINTS_DEEP_EXTRA ==
    << <<"/", "d", "o", "c", "s">>,
       <<"/", "s", "w", "a", "g", "g", "e", "r", "-", "r", "e", "s", "o", "u", "r", "c", "e", "s">>,
       <<"/", "s", "w", "a", "g", "g", "e", "r", "-", "r", "e", "s", "o", "u", "r", "c", "e", "s", "/", "c", "o", "n", "f", "i", "g", "u", "r", "a", "t", "i", "o", "n", "/", "u", "i">>,
       <<"/", "s", "w", "a", "g", "g", "e", "r", "-", "r", "e", "s", "o", "u", "r", "c", "e", "s", "/", "c", "o", "n", "f", "i", "g", "u", "r", "a", "t", "i", "o", "n", "/", "s", "e", "c", "u", "r", "i", "t", "y">>,
       <<"/", "a", "p", "i", "/", "s", "w", "a", "g", "g", "e", "r", ".", "j", "s", "o", "n">>,
       <<"/", "a", "p", "i", "/", "o", "p", "e", "n", "a", "p", "i", ".", "j", "s", "o", "n">>,
       <<"/", "s", "p", "e", "c">>,
       <<"/", "s", "p", "e", "c", ".", "j", "s", "o", "n">> >>

VALID_KEYS ==
    { <<"s", "w", "a", "g", "g", "e", "r">>, <<"o", "p", "e", "n", "a", "p", "i">>, <<"p", "a", "t", "h", "s">>, <<"i", "n", "f", "o">> }

\* the f-string pieces of the URL and the tested substring
HTTPS == <<"h", "t", "t", "p", "s">>

HTTP == <<"h", "t", "t", "p">>

SCHEME_SEP == <<":", "/", "/">>

JSON_WORD == <<"j", "s", "o", "n">>

\* the header row written to the sink
HEADER_ROW == << <<"D", "o", "m", "a", "i", "n">>, <<"E", "n", "d", "p", "o", "i", "n", "t">> >>

\* Python's None (no text equals it: a text is a sequence of characters)
None == <<"None">>

\* a protocol/port tuple with port None; `if port` is false for it as for None
NoPort == 0

(***************************************************************************)
(* Text helpers (str methods used by the program).                         *)
(***************************************************************************)
Whitespace == {" ", "\t"}

RECURSIVE lstrip(_)
lstrip(s) ==
    IF s # <<>> /\ Head(s) \in Whitespace THEN lstrip(Tail(s)) ELSE s

RECURSIVE rstripSet(_, _)
rstripSet(s, chars) ==
    IF s # <<>> /\ s[Len(s)] \in chars THEN rstripSet(SubSeq(s, 1, Len(s) - 1), chars) ELSE s

\* str.strip()
strip(s) == rstripSet(lstrip(s), Whitespace)

\* str.rstrip("/")
rstripSlash(s) == rstripSet(s, {"/"})

UpperToLower ==
    [c \in {"A", "C", "H", "J", "L", "M", "N", "O", "P", "S", "T", "X"} |->
        CASE c = "A" -> "a" [] c = "C" -> "c" [] c = "H" -> "h" [] c = "J" -> "j"
          [] c = "L" -> "l" [] c = "M" -> "m" [] c = "N" -> "n" [] c = "O" -> "o"
          [] c = "P" -> "p" [] c = "S" -> "s" [] c = "T" -> "t" [] c = "X" -> "x"]

\* str.lower()
lower(s) ==
    [i \in 1..Len(s) |-> IF s[i] \in DOMAIN UpperToLower THEN UpperToLower[s[i]] ELSE s[i]]

\* sub in s, for two strings
contains(s, sub) ==
    \E i \in 0..(Len(s) - Len(sub)) : SubSeq(s, i + 1, i + Len(sub)) = sub

Digit == <<"0", "1", "2", "3", "4", "5", "6", "7", "8", "9">>

\* str(n) for n >= 0
RECURSIVE IntToStr(_)
IntToStr(n) ==
    IF n < 10 THEN <<Digit[n + 1]>> ELSE IntToStr(n \div 10) \o <<Digit[(n % 10) + 1]>>

(***************************************************************************)
(* build_urls_for_domain                                                   *)
(***************************************************************************)
endpoints(deep) ==
    IF deep THEN ENDPOINTS_BASIC \o ENDPOINTS_DEEP_EXTRA ELSE ENDPOINTS_BASIC

protocols_ports(deep) ==
    << <<HTTPS, NoPort>>, <<HTTP, NoPort>>, <<HTTP, 8080>> >>
      \o (IF deep THEN << <<HTTP, 80>>, <<HTTP, 8000>>, <<HTTP, 9000>> >> ELSE <<>>)

\* a base that carries every port that is set: `if port:`
base_with_every_port(proto, port, domain) ==
    IF port # NoPort
    THEN proto \o SCHEME_SEP \o domain \o <<":">> \o IntToStr(port)
    ELSE proto \o SCHEME_SEP \o domain

base(proto, port, domain) ==
    IF port # NoPort /\ ~(proto = HTTP /\ port = 80) /\ ~(proto = HTTPS /\ port = 443)
    THEN proto \o SCHEME_SEP \o domain \o <<":">> \o IntToStr(port)
    ELSE proto \o SCHEME_SEP \o domain

\* the cross product, protocol/port tuples outside and paths inside
all_urls(domain, deep) ==
    LET pp == protocols_ports(deep)
        eps == endpoints(deep)
        n == Len(eps)
        f == [j \in 1..(Len(pp) * n) |->
                LET t == pp[((j - 1) \div n) + 1]
                    ep == eps[((j - 1) % n) + 1]
                IN  rstripSlash(base(t[1], t[2], domain)) \o ep]
    IN  SubSeq(f, 1, Len(pp) * n)

\* the Deduplicate loop over us[lo..hi]: u is appended unless it is in `seen`,
\* that is, unless it occurred at an earlier position
RECURSIVE dedup(_, _, _)
dedup(us, lo, hi) ==
    IF lo > hi THEN <<>>
    ELSE IF lo = hi
         THEN IF \E m \in 1..(lo - 1) : us[m] = us[lo] THEN <<>> ELSE <<us[lo]>>
         ELSE dedup(us, lo, (lo + hi) \div 2) \o dedup(us, ((lo + hi) \div 2) + 1, hi)

\* urls is built once, then deduplicated
build_urls_for_domain(domain, deep) ==
    CHOOSE out \in {dedup(us, 1, Len(us)) : us \in {all_urls(domain, deep)}} : TRUE

(***************************************************************************)
(* HTTP responses and parsed JSON bodies.                                  *)
(***************************************************************************)
\* what resp.json() yields: t is the JSON type, "malformed" when it raises
JsonObject(ks) == [t |-> "object", keys |-> ks, items |-> <<>>, s |-> <<>>]

JsonArray(xs) == [t |-> "array", keys |-> {}, items |-> xs, s |-> <<>>]

JsonString(str) == [t |-> "string", keys |-> {}, items |-> <<>>, s |-> str]

JsonOther(type) == [t |-> type, keys |-> {}, items |-> <<>>, s |-> <<>>]

NoBody == JsonOther("malformed")

HttpResponse(st, ct, b) == [kind |-> "http", status |-> st, ctype |-> ct, body |-> b]

\* client.get raised: connection refused, DNS, timeout, TLS, malformed response
NetworkError(why) == [kind |-> why, status |-> 0, ctype |-> <<>>, body |-> NoBody]

NetworkErrors ==
    {NetworkError(w) : w \in {"connect", "dns", "timeout", "tls", "protocol"}}

CT_JSON == <<"a", "p", "p", "l", "i", "c", "a", "t", "i", "o", "n", "/", "j", "s", "o", "n">>

CT_JSON_UPPER == <<"A", "p", "p", "l", "i", "c", "a", "t", "i", "o", "n", "/", "J", "S", "O", "N", ";", " ", "c", "h", "a", "r", "s", "e", "t", "=", "u", "t", "f", "-", "8">>

CT_HTML == <<"t", "e", "x", "t", "/", "h", "t", "m", "l">>

ContentTypes == {CT_JSON, CT_JSON_UPPER, CT_HTML, <<>>}

Statuses == {200, 201, 404, 500}

Bodies ==
    { JsonObject({}), JsonObject({<<"f", "o", "o">>}), JsonObject({<<"s", "w", "a", "g", "g", "e", "r">>}),
      JsonObject({<<"o", "p", "e", "n", "a", "p", "i">>, <<"i", "n", "f", "o">>, <<"p", "a", "t", "h", "s">>}), JsonObject({<<"f", "o", "o">>, <<"i", "n", "f", "o">>}),
      JsonArray(<<>>), JsonArray(<<<<"f", "o", "o">>>>), JsonArray(<<<<"f", "o", "o">>, <<"s", "w", "a", "g", "g", "e", "r">>>>),
      JsonString(<<"f", "o", "o">>), JsonString(<<"i", "n", "f", "o">>), JsonString(<<"m", "y", " ", "p", "a", "t", "h", "s">>),
      JsonOther("number"), JsonOther("bool"), JsonOther("null"), NoBody }

Responses ==
    NetworkErrors \cup {HttpResponse(st, ct, b) : st \in Statuses, ct \in ContentTypes, b \in Bodies}

\* the responses the servers of the scan give
ServerResponses ==
    { NetworkError("timeout"),
      HttpResponse(404, CT_HTML, NoBody),
      HttpResponse(200, CT_JSON, JsonObject({<<"o", "p", "e", "n", "a", "p", "i">>})) }

(***************************************************************************)
(* check_endpoint: the classification of one response.                     *)
(***************************************************************************)
\* an exception that leaves check_endpoint (none does)
Raised == <<"Raised">>

\* `key in data` raises TypeError unless data is a dict, a list or a str
in_raises(data) == data.t \notin {"object", "array", "string"}

\* key in data
key_in(key, data) ==
    CASE data.t = "object" -> key \in data.keys
      [] data.t = "array" -> \E j \in 1..Len(data.items) : data.items[j] = key
      [] data.t = "string" -> contains(data.s, key)
      [] OTHER -> FALSE

\* lines 87-103: the checks on a response that arrived
validate_response(url, resp) ==
    IF resp.status # 200 THEN None
    ELSE IF ~contains(lower(resp.ctype), JSON_WORD) THEN None
    ELSE IF resp.body.t = "malformed" THEN None
    ELSE IF in_raises(resp.body) THEN None
    ELSE IF \E key \in VALID_KEYS : key_in(key, resp.body) THEN url
    ELSE None

\* check_endpoint without its outer `except Exception`
check_endpoint_unguarded(url, resp) ==
    IF resp.kind # "http" THEN Raised ELSE validate_response(url, resp)

\* the value check_endpoint returns for url when the fetch gives resp (or
\* raises, for a resp of NetworkErrors)
check_endpoint(url, resp) ==
    IF resp.kind # "http" THEN None ELSE validate_response(url, resp)

(***************************************************************************)
(* The state of one run.                                                   *)
(***************************************************************************)
VARIABLES
    domains,      \* run's argument: the raw input list
    deep,         \* run's argument: the scan mode
    run_pc,       \* where run is: "init", "gather", "done", "failed"
    dpc,          \* where each check_domain task is ("none": no task for the entry)
    urls,         \* check_domain's urls, per task
    epc,          \* where each check_endpoint task is, per task and candidate
    eresp,        \* the response each fetch got
    eres,         \* the value each check_endpoint returned
    done_order,   \* per task, the candidates in the order their validations returned
    sem_value,    \* SEM: free permits
    sem_waiters,  \* SEM: the tasks waiting for a permit, first come first
    lock_locked,  \* the sink lock
    found,        \* check_domain's found, per task
    widx,         \* position of the loop `for url in found`, per task
    running,      \* the check_domain task that holds the event loop, or NoTask
    ready,        \* the new tasks that have not run yet, in the order of their creation
    sink,         \* the rows of the output file
    console,      \* what was written to stdout
    results,      \* what each check_domain returned
    run_result,   \* what run returned
    probe,        \* one check_endpoint classification on its own
    args,         \* main's parsed command line
    main_pc,      \* where main is: "off", "start", "run", "returned", "exited"
    main_ret,     \* what main returned
    exit_code,    \* the exit code of the process
    gen           \* one build_urls_for_domain call on its own, loop by loop

vars ==
    << domains, deep, run_pc, dpc, urls, epc, eresp, eres, done_order, sem_value,
       sem_waiters, lock_locked, found, widx, running, ready, sink, console,
       results, run_result, probe,
                    args, main_pc, main_ret, exit_code, gen >>

NoTask == 0

NoResponse == NetworkError("none")

NoProbe == [pc |-> "off", url |-> <<>>, resp |-> NoResponse, result |-> None]

\* the values main can return: an int, or the list run returned
IntValue(n) == [kind |-> "int", int |-> n, list |-> <<>>]

ListValue(l) == [kind |-> "list", int |-> 0, list |-> l]

NoValue == [kind |-> "none", int |-> 0, list |-> <<>>]

\* the process has not exited
NoExit == -1

\* the parsed command line: --list (no option, a path that does not exist,
\* a file with its lines), the positional domains, --deep
Args(l, ls, ds, dp) == [list |-> l, lines |-> ls, domains |-> ds, deep |-> dp]

NoArgs == Args("none", <<>>, <<>>, FALSE)

NoGen ==
    [pc |-> "off", domain |-> <<>>, deep |-> FALSE, pp |-> 1, ep |-> 1,
     urls |-> <<>>, pos |-> 1, seen |-> {}, out |-> <<>>, result |-> <<>>]

\* a row of the file, with the task that wrote it
sink_entry(i, r) == [task |-> i, row |-> r]

\* the entries of the input list: a name, a name to trim, a blank line
RawEntries == { <<"a">>, <<" ", "b">>, <<" ">> }

DomainLists == UNION { [1..n -> RawEntries] : n \in 1..MaxDomains }

Idx == 1..Len(domains)

\* the arguments run passes to check_domain for entry i
task_domain(i) == strip(domains[i])

task_idx(i) == i

task_total == Len(domains)

\* the filter without the strip: `if domain`
has_task_unstripped(i) == domains[i] # <<>>

\* the entries that get a task: `if domain.strip()`
has_task(i) == strip(domains[i]) # <<>>

Tasks == {i \in Idx : has_task(i)}

Min(a, b) == IF a < b THEN a ELSE b

\* the candidates the model validates for a domain
Candidates(domain, dp) ==
    LET us == build_urls_for_domain(domain, dp)
    IN  SubSeq(us, 1, Min(MaxCands, Len(us)))

Cands(i) == 1..Len(urls[i])

\* round((idx / total) * 100, 2), in hundredths of a percent; ties go to even
percent(idx, total) ==
    LET q == (idx * 10000) \div total
        r == (idx * 10000) % total
    IN  IF 2 * r > total THEN q + 1
        ELSE IF 2 * r = total /\ q % 2 = 1 THEN q + 1
        ELSE q

\* [res for res in ... if res]: the truthy results in gather's (task) order
RECURSIVE truthy(_)
truthy(rs) ==
    IF rs = <<>> THEN <<>>
    ELSE IF Head(rs) # None /\ Head(rs) # <<>>
         THEN <<Head(rs)>> \o truthy(Tail(rs))
         ELSE truthy(Tail(rs))

\* the truthy results in the order the validations returned
gathered_as_completed(i) ==
    truthy([j \in 1..Len(done_order[i]) |-> eres[i][done_order[i][j]]])

\* every result, the None of a rejected candidate too
gathered_unfiltered(i) == eres[i]

\* found, as line 112 builds it from gather's list
gathered(i) == truthy(eres[i])

Init ==
    /\ domains \in DomainLists
    /\ deep \in BOOLEAN
    /\ run_pc = "init"
    /\ dpc = [i \in Idx |-> "none"]
    /\ urls = [i \in Idx |-> <<>>]
    /\ epc = [i \in Idx |-> <<>>]
    /\ eresp = [i \in Idx |-> <<>>]
    /\ eres = [i \in Idx |-> <<>>]
    /\ done_order = [i \in Idx |-> <<>>]
    /\ sem_value = SemPermits
    /\ sem_waiters = <<>>
    /\ lock_locked = FALSE
    /\ found = [i \in Idx |-> <<>>]
    /\ widx = [i \in Idx |-> 0]
    /\ running = NoTask
    /\ ready = <<>>
    /\ sink = <<>>
    /\ console = <<>>
    /\ results = [i \in Idx |-> None]
    /\ run_result = None
    /\ probe = NoProbe
    /\ args = NoArgs
    /\ main_pc = "off"
    /\ main_ret = NoValue
    /\ exit_code = NoExit
    /\ gen = NoGen

(***************************************************************************)
(* run, up to its gather.                                                  *)
(***************************************************************************)
\* the check_domain tasks in the order run creates them; <<i, 0>> is the task
\* of entry i and <<i, k>> its k-th check_endpoint task
RECURSIVE new_tasks(_)
new_tasks(i) ==
    IF i > Len(domains) THEN <<>>
    ELSE IF has_task(i) THEN << <<i, 0>> >> \o new_tasks(i + 1)
         ELSE new_tasks(i + 1)

\* run opens the file, writes the header and creates one task per entry that
\* is not blank
RunStart ==
    /\ run_pc = "init"
    /\ sink' = <<sink_entry(NoTask, HEADER_ROW)>>
    /\ dpc' = [i \in Idx |-> IF has_task(i) THEN "new" ELSE "none"]
    /\ ready' = new_tasks(1)
    /\ run_pc' = "gather"
    /\ UNCHANGED << domains, deep, urls, epc, eresp, eres, done_order, sem_value,
                    sem_waiters, lock_locked, found, widx, running, console, results,
                    run_result, probe,
                    args, main_pc, main_ret, exit_code, gen >>

(***************************************************************************)
(* check_domain, up to its gather.                                         *)
(***************************************************************************)
\* the first step of check_domain: the candidates are built and one
\* check_endpoint task is created for each
DomainStart(i) ==
    /\ running = NoTask
    /\ ready # <<>> /\ Head(ready) = <<i, 0>>
    /\ dpc[i] = "new"
    /\ \E us \in {Candidates(task_domain(i), deep)} :
           /\ urls' = [urls EXCEPT ![i] = us]
           /\ epc' = [epc EXCEPT ![i] = [k \in 1..Len(us) |-> "new"]]
           /\ eresp' = [eresp EXCEPT ![i] = [k \in 1..Len(us) |-> NoResponse]]
           /\ eres' = [eres EXCEPT ![i] = [k \in 1..Len(us) |-> None]]
           /\ ready' = Tail(ready) \o [k \in 1..Len(us) |-> <<i, k>>]
    /\ dpc' = [dpc EXCEPT ![i] = "gather"]
    /\ UNCHANGED << domains, deep, run_pc, done_order, sem_value, sem_waiters,
                    lock_locked, found, widx, running, sink, console, results,
                    run_result, probe,
                    args, main_pc, main_ret, exit_code, gen >>

(***************************************************************************)
(* check_endpoint under SEM.                                               *)
(***************************************************************************)
\* an acquire that never waits
sem_never_locked == FALSE

\* Semaphore.locked()
sem_locked == sem_value = 0 \/ sem_waiters # <<>>

\* `async with SEM`: take a permit and issue the request, or queue for one
EndpointStart(i, k) ==
    /\ running = NoTask
    /\ ready # <<>> /\ Head(ready) = <<i, k>>
    /\ epc[i][k] = "new"
    /\ ready' = Tail(ready)
    /\ IF ~sem_locked
       THEN /\ sem_value' = sem_value - 1
            /\ epc' = [epc EXCEPT ![i][k] = "fetching"]
            /\ UNCHANGED sem_waiters
       ELSE /\ sem_waiters' = Append(sem_waiters, <<i, k>>)
            /\ epc' = [epc EXCEPT ![i][k] = "waiting"]
            /\ UNCHANGED sem_value
    /\ UNCHANGED << domains, deep, run_pc, dpc, urls, eresp, eres, done_order,
                    lock_locked, found, widx, running, sink, console, results,
                    run_result, probe,
                    args, main_pc, main_ret, exit_code, gen >>

\* a waiter that was handed a permit issues its request
EndpointResume(i, k) ==
    /\ running = NoTask
    /\ epc[i][k] = "granted"
    /\ epc' = [epc EXCEPT ![i][k] = "fetching"]
    /\ UNCHANGED << domains, deep, run_pc, dpc, urls, eresp, eres, done_order,
                    sem_value, sem_waiters, lock_locked, found, widx, running, ready, sink,
                    console, results, run_result, probe,
                    args, main_pc, main_ret, exit_code, gen >>

\* a permit given back only when the request did not raise
releases_unless_raised(resp) == resp.kind = "http"

\* leaving `async with SEM` gives the permit back, however the block is left
releases(resp) == TRUE

\* the pc of a check_endpoint task that ended with value v
ended(v) == IF v = Raised THEN "raised" ELSE "done"

\* the fetch returns or raises, the response is classified and the permit is
\* given back: to the first waiter if there is one
FetchReturn(i, k, resp) ==
    /\ running = NoTask
    /\ epc[i][k] = "fetching"
    /\ LET v == check_endpoint(urls[i][k], resp)
           e == [epc EXCEPT ![i][k] = ended(v)]
       IN  /\ eresp' = [eresp EXCEPT ![i][k] = resp]
           /\ eres' = [eres EXCEPT ![i][k] = IF v = Raised THEN None ELSE v]
           /\ IF ~releases(resp)
              THEN /\ epc' = e
                   /\ UNCHANGED << sem_value, sem_waiters >>
              ELSE IF sem_waiters # <<>>
              THEN /\ epc' = [e EXCEPT ![Head(sem_waiters)[1]][Head(sem_waiters)[2]] = "granted"]
                   /\ sem_waiters' = Tail(sem_waiters)
                   /\ UNCHANGED sem_value
              ELSE /\ epc' = e
                   /\ sem_value' = sem_value + 1
                   /\ UNCHANGED sem_waiters
    /\ done_order' = [done_order EXCEPT ![i] = Append(@, k)]
    /\ UNCHANGED << domains, deep, run_pc, dpc, urls, lock_locked, found, widx,
                    running, ready, sink, console, results, run_result, probe,
                    args, main_pc, main_ret, exit_code, gen >>

(***************************************************************************)
(* check_domain, after its gather.  From here to its return the task never *)
(* has to wait (the lock is free whenever it is asked for), so it holds    *)
(* the event loop throughout: `running`.                                   *)
(***************************************************************************)
\* a gather that returns with the first result
any_returned(i) == \E k \in Cands(i) : epc[i][k] = "done"

\* gather(*tasks) has every result
all_returned(i) == \A k \in Cands(i) : epc[i][k] = "done"

some_raised(i) == \E k \in Cands(i) : epc[i][k] = "raised"

progress_event(i) ==
    [ev |-> "progress", task |-> i, idx |-> task_idx(i), total |-> task_total,
     pct |-> percent(task_idx(i), task_total), text |-> <<>>]

found_event(i) ==
    [ev |-> "found", task |-> i, idx |-> 0, total |-> 0, pct |-> 0, text |-> task_domain(i)]

url_event(i, u) ==
    [ev |-> "url", task |-> i, idx |-> 0, total |-> 0, pct |-> 0, text |-> u]

complete_event ==
    [ev |-> "complete", task |-> NoTask, idx |-> 0, total |-> 0, pct |-> 0, text |-> <<>>]

\* gather returns (or raises what a check_endpoint raised); found is built
\* and the progress line is written
DomainProgress(i) ==
    /\ running = NoTask
    /\ dpc[i] = "gather"
    /\ all_returned(i) \/ some_raised(i)
    /\ IF some_raised(i)
       THEN /\ dpc' = [dpc EXCEPT ![i] = "failed"]
            /\ UNCHANGED << found, console, running, ready >>
       ELSE /\ found' = [found EXCEPT ![i] = gathered(i)]
            /\ console' = Append(console, progress_event(i))
            /\ dpc' = [dpc EXCEPT ![i] = IF gathered(i) # <<>> THEN "announce" ELSE "return"]
            /\ running' = i
    /\ UNCHANGED << ready, domains, deep, run_pc, urls, epc, eresp, eres, done_order,
                    sem_value, sem_waiters, lock_locked, widx, sink, results,
                    run_result, probe,
                    args, main_pc, main_ret, exit_code, gen >>

\* `if found:` print the domain's headline and enter the loop
Announce(i) ==
    /\ running = i
    /\ dpc[i] = "announce"
    /\ console' = Append(console, found_event(i))
    /\ widx' = [widx EXCEPT ![i] = 1]
    /\ dpc' = [dpc EXCEPT ![i] = "print"]
    /\ UNCHANGED << domains, deep, run_pc, urls, epc, eresp, eres, done_order,
                    sem_value, sem_waiters, lock_locked, found, running, ready, sink,
                    results, run_result, probe,
                    args, main_pc, main_ret, exit_code, gen >>

\* print the url of this iteration
PrintUrl(i) ==
    /\ running = i
    /\ dpc[i] = "print"
    /\ console' = Append(console, url_event(i, found[i][widx[i]]))
    /\ dpc' = [dpc EXCEPT ![i] = "acquire"]
    /\ UNCHANGED << domains, deep, run_pc, urls, epc, eresp, eres, done_order,
                    sem_value, sem_waiters, lock_locked, found, widx, running, ready, sink,
                    results, run_result, probe,
                    args, main_pc, main_ret, exit_code, gen >>

\* a lock that is never marked as held
lock_not_taken == FALSE

\* Lock.acquire: the value of the lock after a task took it
lock_taken == TRUE

\* an acquire that always gives up the event loop before it takes the lock
lock_always_suspends == FALSE

\* Lock.acquire's fast path: a free lock is taken without a suspension
lock_fast_path == ~lock_locked

\* `async with lock`: take the lock if it is free, else give up the event loop
\* and wait for it
LockAcquire(i) ==
    /\ \/ running = i /\ dpc[i] = "acquire"
       \/ running = NoTask /\ dpc[i] = "lockwait" /\ ~lock_locked
    /\ IF dpc[i] = "lockwait" \/ lock_fast_path
       THEN /\ lock_locked' = lock_taken
            /\ dpc' = [dpc EXCEPT ![i] = "write"]
            /\ running' = i
       ELSE /\ dpc' = [dpc EXCEPT ![i] = "lockwait"]
            /\ running' = NoTask
            /\ UNCHANGED lock_locked
    /\ UNCHANGED << ready, domains, deep, run_pc, urls, epc, eresp, eres, done_order,
                    sem_value, sem_waiters, found, widx, sink, console, results,
                    run_result, probe,
                    args, main_pc, main_ret, exit_code, gen >>

\* a row that is kept back instead of being written
WriteRowDeferred(i) ==
    /\ running = i
    /\ dpc[i] = "write"
    /\ dpc' = [dpc EXCEPT ![i] = "release"]
    /\ UNCHANGED << domains, deep, run_pc, urls, epc, eresp, eres, done_order,
                    sem_value, sem_waiters, lock_locked, found, widx, running, ready,
                    sink, console, results, run_result, probe,
                    args, main_pc, main_ret, exit_code, gen >>

\* writer.writerow([domain, url])
WriteRow(i) ==
    /\ running = i
    /\ dpc[i] = "write"
    /\ sink' = Append(sink, sink_entry(i, <<task_domain(i), found[i][widx[i]]>>))
    /\ dpc' = [dpc EXCEPT ![i] = "release"]
    /\ UNCHANGED << domains, deep, run_pc, urls, epc, eresp, eres, done_order,
                    sem_value, sem_waiters, lock_locked, found, widx, running, ready,
                    console, results, run_result, probe,
                    args, main_pc, main_ret, exit_code, gen >>

\* a lock that stays held after the block that took it
lock_kept == TRUE

\* Lock.release: the value of the lock after the block
lock_released == FALSE

\* leaving `async with lock`, then the next iteration or the end of the loop
LockRelease(i) ==
    /\ running = i
    /\ dpc[i] = "release"
    /\ lock_locked' = lock_released
    /\ IF widx[i] < Len(found[i])
       THEN /\ widx' = [widx EXCEPT ![i] = @ + 1]
            /\ dpc' = [dpc EXCEPT ![i] = "print"]
       ELSE /\ dpc' = [dpc EXCEPT ![i] = "return"]
            /\ UNCHANGED widx
    /\ UNCHANGED << domains, deep, run_pc, urls, epc, eresp, eres, done_order,
                    sem_value, sem_waiters, found, running, ready, sink, console, results,
                    run_result, probe,
                    args, main_pc, main_ret, exit_code, gen >>

\* return domain, found
DomainReturn(i) ==
    /\ running = i
    /\ dpc[i] = "return"
    /\ results' = [results EXCEPT ![i] = <<task_domain(i), found[i]>>]
    /\ dpc' = [dpc EXCEPT ![i] = "done"]
    /\ running' = NoTask
    /\ UNCHANGED << ready, domains, deep, run_pc, urls, epc, eresp, eres, done_order,
                    sem_value, sem_waiters, lock_locked, found, widx, sink, console,
                    run_result, probe,
                    args, main_pc, main_ret, exit_code, gen >>

(***************************************************************************)
(* run, after its gather.                                                  *)
(***************************************************************************)
\* the results of the tasks that confirmed a url
RECURSIVE results_with_findings(_)
results_with_findings(i) ==
    IF i > Len(domains) THEN <<>>
    ELSE IF has_task(i) /\ results[i][2] # <<>>
         THEN <<results[i]>> \o results_with_findings(i + 1)
         ELSE results_with_findings(i + 1)

\* the results of the tasks in the order the tasks were created
RECURSIVE results_from(_)
results_from(i) ==
    IF i > Len(domains) THEN <<>>
    ELSE IF has_task(i) THEN <<results[i]>> \o results_from(i + 1)
         ELSE results_from(i + 1)

\* gather returns (or raises what a check_domain raised); the file is closed,
\* the closing line is printed and the results are returned
RunReturn ==
    /\ run_pc = "gather"
    /\ running = NoTask
    /\ (\A i \in Tasks : dpc[i] = "done") \/ (\E i \in Tasks : dpc[i] = "failed")
    /\ IF \E i \in Tasks : dpc[i] = "failed"
       THEN /\ run_pc' = "failed"
            /\ UNCHANGED << ready, console, run_result >>
       ELSE /\ run_pc' = "done"
            /\ console' = Append(console, complete_event)
            /\ run_result' = results_from(1)
    /\ UNCHANGED << domains, deep, dpc, urls, epc, eresp, eres, done_order,
                    sem_value, sem_waiters, lock_locked, found, widx, running, ready, sink,
                    results, probe,
                    args, main_pc, main_ret, exit_code, gen >>

Next ==
    \/ RunStart
    \/ \E i \in Idx : DomainStart(i)
    \/ \E i \in Idx : \E k \in Cands(i) : EndpointStart(i, k)
    \/ \E i \in Idx : \E k \in Cands(i) : EndpointResume(i, k)
    \/ \E i \in Idx : \E k \in Cands(i) : \E resp \in ServerResponses : FetchReturn(i, k, resp)
    \/ \E i \in Idx : DomainProgress(i)
    \/ \E i \in Idx : Announce(i)
    \/ \E i \in Idx : PrintUrl(i)
    \/ \E i \in Idx : LockAcquire(i)
    \/ \E i \in Idx : WriteRow(i)
    \/ \E i \in Idx : LockRelease(i)
    \/ \E i \in Idx : DomainReturn(i)
    \/ RunReturn

Spec == Init /\ [][Next]_vars

\* the event loop runs a callback whenever one is ready, and every issued
\* fetch returns or times out: the run does not stop while a step is possible
Fairness == WF_vars(Next)

SpecLive == Init /\ [][Next]_vars /\ Fairness

(***************************************************************************)
(* check_endpoint on its own, over every response of Responses.            *)
(***************************************************************************)
ProbeUrl == HTTPS \o SCHEME_SEP \o <<"a">> \o ENDPOINTS_BASIC[1]

InitValidate ==
    /\ domains = <<>>
    /\ deep = FALSE
    /\ run_pc = "off"
    /\ dpc = <<>>
    /\ urls = <<>>
    /\ epc = <<>>
    /\ eresp = <<>>
    /\ eres = <<>>
    /\ done_order = <<>>
    /\ sem_value = SemPermits
    /\ sem_waiters = <<>>
    /\ lock_locked = FALSE
    /\ found = <<>>
    /\ widx = <<>>
    /\ running = NoTask
    /\ ready = <<>>
    /\ sink = <<>>
    /\ console = <<>>
    /\ results = <<>>
    /\ run_result = None
    /\ probe \in {[pc |-> "call", url |-> ProbeUrl, resp |-> r, result |-> None] : r \in Responses}
    /\ args = NoArgs
    /\ main_pc = "off"
    /\ main_ret = NoValue
    /\ exit_code = NoExit
    /\ gen = NoGen

\* one call of check_endpoint, from the request to the returned value
Validate ==
    /\ probe.pc = "call"
    /\ probe' = [probe EXCEPT !.pc = "returned",
                              !.result = check_endpoint(probe.url, probe.resp)]
    /\ UNCHANGED << domains, deep, run_pc, dpc, urls, epc, eresp, eres, done_order,
                    sem_value, sem_waiters, lock_locked, found, widx, running, ready, sink,
                    console, results, run_result,
                    args, main_pc, main_ret, exit_code, gen >>

NextValidate == Validate

SpecValidate == InitValidate /\ [][NextValidate]_vars

(***************************************************************************)
(* main and the exit of the process.                                       *)
(***************************************************************************)
\* the lists of at most n entries
EntryLists(n) == UNION { [1..m -> RawEntries] : m \in 0..n }

\* the command lines: no --list, a --list path that does not exist, or a
\* --list file with its lines; positional domains; --deep
MainArgs ==
    { Args(l, ls, ds, dp) :
        l \in {"none", "missing", "file"}, ls \in EntryLists(MaxDomains),
        ds \in EntryLists(MaxDomains), dp \in BOOLEAN }

InitMain ==
    /\ args \in {a \in MainArgs :
                    /\ Len(a.lines) + Len(a.domains) <= MaxDomains
                    /\ a.list # "file" => a.lines = <<>>}
    /\ main_pc = "start"
    /\ main_ret = NoValue
    /\ exit_code = NoExit
    /\ domains = <<>>
    /\ deep = FALSE
    /\ run_pc = "off"
    /\ dpc = <<>>
    /\ urls = <<>>
    /\ epc = <<>>
    /\ eresp = <<>>
    /\ eres = <<>>
    /\ done_order = <<>>
    /\ sem_value = SemPermits
    /\ sem_waiters = <<>>
    /\ lock_locked = FALSE
    /\ found = <<>>
    /\ widx = <<>>
    /\ running = NoTask
    /\ ready = <<>>
    /\ sink = <<>>
    /\ console = <<>>
    /\ results = <<>>
    /\ run_result = None
    /\ probe = NoProbe
    /\ gen = NoGen

error_event(what) ==
    [ev |-> "error", task |-> NoTask, idx |-> 0, total |-> 0, pct |-> 0, text |-> <<what>>]

\* `if args.list` with a path that does not exist
list_missing(a) == a.list = "missing"

\* domains = file_path.read_text().splitlines(); domains.extend(args.domains)
load_domains(a) == (IF a.list = "file" THEN a.lines ELSE <<>>) \o a.domains

\* a main that does not test the list
no_domains_unchecked(ds) == FALSE

\* `if not domains`
no_domains(ds) == ds = <<>>

\* main from parse_args to its first return or to the call of run
MainLoad ==
    /\ main_pc = "start"
    /\ IF list_missing(args)
       THEN /\ console' = Append(console, error_event("File not found"))
            /\ main_ret' = IntValue(1)
            /\ main_pc' = "returned"
            /\ UNCHANGED << domains, deep, run_pc, dpc, urls, epc, eresp, eres,
                            done_order, found, widx, results >>
       ELSE IF no_domains(load_domains(args))
       THEN /\ console' = Append(console, error_event("No domains provided"))
            /\ main_ret' = IntValue(1)
            /\ main_pc' = "returned"
            /\ UNCHANGED << domains, deep, run_pc, dpc, urls, epc, eresp, eres,
                            done_order, found, widx, results >>
       ELSE /\ domains' = load_domains(args)
            /\ deep' = args.deep
            /\ run_pc' = "init"
            /\ dpc' = [i \in 1..Len(domains') |-> "none"]
            /\ urls' = [i \in 1..Len(domains') |-> <<>>]
            /\ epc' = [i \in 1..Len(domains') |-> <<>>]
            /\ eresp' = [i \in 1..Len(domains') |-> <<>>]
            /\ eres' = [i \in 1..Len(domains') |-> <<>>]
            /\ done_order' = [i \in 1..Len(domains') |-> <<>>]
            /\ found' = [i \in 1..Len(domains') |-> <<>>]
            /\ widx' = [i \in 1..Len(domains') |-> 0]
            /\ results' = [i \in 1..Len(domains') |-> None]
            /\ main_pc' = "run"
            /\ UNCHANGED << console, main_ret >>
    /\ UNCHANGED << sem_value, sem_waiters, lock_locked, running, ready, sink,
                    run_result, probe, args, exit_code, gen >>

\* return asyncio.run(run(...)): main returns what run returned
MainReturn ==
    /\ main_pc = "run"
    /\ run_pc = "done"
    /\ main_ret' = ListValue(run_result)
    /\ main_pc' = "returned"
    /\ UNCHANGED << domains, deep, run_pc, dpc, urls, epc, eresp, eres, done_order,
                    sem_value, sem_waiters, lock_locked, found, widx, running, ready,
                    sink, console, results, run_result, probe, args, exit_code, gen >>

\* the exit code sys.exit gives its argument: 0 for None, the value of an
\* int, and 1 for any other object, which is printed to stderr
exit_status(v) ==
    CASE v.kind = "none" -> 0
      [] v.kind = "int" -> v.int
      [] OTHER -> 1

\* sys.exit(main(sys.argv[1:]))
SysExit ==
    /\ main_pc = "returned"
    /\ exit_code' = exit_status(main_ret)
    /\ main_pc' = "exited"
    /\ UNCHANGED << domains, deep, run_pc, dpc, urls, epc, eresp, eres, done_order,
                    sem_value, sem_waiters, lock_locked, found, widx, running, ready,
                    sink, console, results, run_result, probe, args, main_ret, gen >>

NextMain ==
    \/ MainLoad
    \/ Next
    \/ MainReturn
    \/ SysExit

SpecMain == InitMain /\ [][NextMain]_vars

(***************************************************************************)
(* build_urls_for_domain on its own, loop by loop, over the full lists.    *)
(***************************************************************************)
\* the domains the generator is called with: a name, a name with a trailing
\* slash, the empty name
GenDomains == { <<"a">>, <<"a", "/">>, <<>> }

IdleRun ==
    /\ domains = <<>>
    /\ deep = FALSE
    /\ run_pc = "off"
    /\ dpc = <<>>
    /\ urls = <<>>
    /\ epc = <<>>
    /\ eresp = <<>>
    /\ eres = <<>>
    /\ done_order = <<>>
    /\ sem_value = SemPermits
    /\ sem_waiters = <<>>
    /\ lock_locked = FALSE
    /\ found = <<>>
    /\ widx = <<>>
    /\ running = NoTask
    /\ ready = <<>>
    /\ sink = <<>>
    /\ console = <<>>
    /\ results = <<>>
    /\ run_result = None
    /\ probe = NoProbe
    /\ args = NoArgs
    /\ main_pc = "off"
    /\ main_ret = NoValue
    /\ exit_code = NoExit

InitGen ==
    /\ IdleRun
    /\ gen \in {[NoGen EXCEPT !.pc = "loop", !.domain = d, !.deep = m] :
                    d \in GenDomains, m \in BOOLEAN}

\* one urls.append(base.rstrip("/") + ep) of the nested loops
GenAppend ==
    /\ gen.pc = "loop"
    /\ LET pps == protocols_ports(gen.deep)
           eps == endpoints(gen.deep)
           t == pps[gen.pp]
           u == rstripSlash(base(t[1], t[2], gen.domain)) \o eps[gen.ep]
           last_ep == gen.ep = Len(eps)
           last_pp == gen.pp = Len(pps)
       IN  gen' = [gen EXCEPT !.urls = Append(@, u),
                              !.ep = IF last_ep THEN 1 ELSE @ + 1,
                              !.pp = IF last_ep /\ ~last_pp THEN @ + 1 ELSE @,
                              !.pc = IF last_ep /\ last_pp THEN "dedup" ELSE "loop"]
    /\ UNCHANGED << domains, deep, run_pc, dpc, urls, epc, eresp, eres, done_order,
                    sem_value, sem_waiters, lock_locked, found, widx, running, ready,
                    sink, console, results, run_result, probe, args, main_pc,
                    main_ret, exit_code >>

\* one iteration of `for u in urls` of the Deduplicate loop
GenDedup ==
    /\ gen.pc = "dedup"
    /\ gen.pos <= Len(gen.urls)
    /\ LET u == gen.urls[gen.pos]
       IN  gen' = [gen EXCEPT !.seen = @ \cup {u},
                              !.out = IF u \notin gen.seen THEN Append(@, u) ELSE @,
                              !.pos = @ + 1]
    /\ UNCHANGED << domains, deep, run_pc, dpc, urls, epc, eresp, eres, done_order,
                    sem_value, sem_waiters, lock_locked, found, widx, running, ready,
                    sink, console, results, run_result, probe, args, main_pc,
                    main_ret, exit_code >>

\* return out
GenReturn ==
    /\ gen.pc = "dedup"
    /\ gen.pos > Len(gen.urls)
    /\ gen' = [gen EXCEPT !.result = gen.out, !.pc = "done"]
    /\ UNCHANGED << domains, deep, run_pc, dpc, urls, epc, eresp, eres, done_order,
                    sem_value, sem_waiters, lock_locked, found, widx, running, ready,
                    sink, console, results, run_result, probe, args, main_pc,
                    main_ret, exit_code >>

NextGen ==
    \/ GenAppend
    \/ GenDedup
    \/ GenReturn

SpecGen == InitGen /\ [][NextGen]_vars

(***************************************************************************)
(* Properties.                                                             *)
(***************************************************************************)
AllCands == UNION { {<<i, k>> : k \in Cands(i)} : i \in Idx }

InFlight == {c \in AllCands : epc[c[1]][c[2]] = "fetching"}

HoldingPermit == {c \in AllCands : epc[c[1]][c[2]] \in {"granted", "fetching"}}

Returned == {c \in AllCands : epc[c[1]][c[2]] = "done"}

Confirmed == {c \in Returned : eres[c[1]][c[2]] = urls[c[1]][c[2]]}

NetworkFailed == {c \in Returned : eresp[c[1]][c[2]] \in NetworkErrors}

ConsoleEvents(kind) == SelectSeq(console, LAMBDA e : e.ev = kind)

DataRows == [j \in 1..(Len(sink) - 1) |-> sink[j + 1]]

\* C1: at every moment the fetches in flight, over all domains together, are
\* at most the permits of the limiter.
C1_InFlightBounded == Cardinality(InFlight) <= SemPermits

\* the limiter is full with fetches of two domains while candidates wait for a permit
C1_Witness ==
    /\ Cardinality(InFlight) = SemPermits
    /\ \E c, d \in InFlight : c[1] # d[1]
    /\ sem_waiters # <<>>
    /\ Cardinality(AllCands) > SemPermits

\* C2: free permits plus the validations holding one are the capacity at every
\* moment, and every permit is free again when run has finished.
C2_PermitsConserved ==
    /\ sem_value >= 0
    /\ sem_value + Cardinality(HoldingPermit) = SemPermits
    /\ run_pc = "done" => sem_value = SemPermits /\ HoldingPermit = {}

\* run finished after validations left by the confirmed, the non-200 and the
\* exception path, some of which had waited for a permit
C2_Witness ==
    /\ run_pc = "done"
    /\ sem_value = SemPermits
    /\ Cardinality(Returned) > SemPermits
    /\ \E c \in Confirmed : TRUE
    /\ \E c \in NetworkFailed : TRUE
    /\ \E c \in Returned : eresp[c[1]][c[2]].kind = "http" /\ eresp[c[1]][c[2]].status = 404

\* the report events of task i: its console lines, its sink rows, its return value
Reported(i) ==
    \/ \E j \in 1..Len(console) : console[j].task = i
    \/ \E j \in 1..Len(sink) : sink[j].task = i
    \/ results[i] # None

\* C3: nothing of a domain is reported (progress line, finding, sink row,
\* returned result) while one of its candidate validations is unresolved.
C3_ReportAfterAllResolved ==
    \A i \in Idx : Reported(i) => \A k \in Cands(i) : epc[i][k] = "done"

\* a domain with two candidates has been reported while another still validates
C3_Witness ==
    \E i, j \in Idx :
        /\ i # j
        /\ results[i] # None
        /\ Len(urls[i]) >= 2
        /\ \E k \in Cands(j) : epc[j][k] = "fetching"

\* position of u in the generated list us
position(us, u) == CHOOSE j \in 1..Len(us) : us[j] = u

\* s lists elements of us in the order us has them
InOrderOf(s, us) ==
    /\ \A a \in 1..Len(s) : \E j \in 1..Len(us) : us[j] = s[a]
    /\ \A a, b \in 1..Len(s) : a < b => position(us, s[a]) < position(us, s[b])

RowsOf(i) == SelectSeq(DataRows, LAMBDA e : e.task = i)

\* C4: the confirmed URLs of a domain, in its result and in its sink rows, are
\* in generator order whatever the order in which the fetches completed.
C4_GeneratorOrder ==
    \A i \in Idx :
        /\ InOrderOf(found[i], urls[i])
        /\ results[i] # None => InOrderOf(results[i][2], urls[i])
        /\ InOrderOf([j \in 1..Len(RowsOf(i)) |-> RowsOf(i)[j].row[2]], urls[i])

\* two confirmed candidates completed in the reverse of generator order and the
\* result and the rows list them in generator order
C4_Witness ==
    \E i \in Idx :
        /\ done_order[i] = <<2, 1>>
        /\ results[i] # None
        /\ results[i][2] = <<urls[i][1], urls[i][2]>>
        /\ Len(RowsOf(i)) = 2

\* what the specification of the validator accepts: status 200, a content type
\* with "json", a body that parses to an object with one of the keys
SpecConfirmed(resp) ==
    /\ resp.kind = "http"
    /\ resp.status = 200
    /\ contains(lower(resp.ctype), JSON_WORD)
    /\ resp.body.t = "object"
    /\ resp.body.keys \cap VALID_KEYS # {}

\* C5: check_endpoint returns the url exactly for a 200 response with a JSON
\* content type whose body is a JSON object with one of the keys, and rejects
\* every other response, a JSON array, string or number included.
C5_ConfirmedIffSpecObject ==
    probe.pc = "returned" =>
        /\ probe.result \in {probe.url, None}
        /\ probe.result = probe.url <=> SpecConfirmed(probe.resp)

\* C6: a network failure of a fetch is a rejection and fails nothing: no task
\* ends with an exception, run finishes with every candidate of every domain
\* validated, and a domain whose candidates all failed returns an empty list.
C6_NetworkErrorsAbsorbed ==
    /\ \A c \in NetworkFailed : eres[c[1]][c[2]] = None
    /\ \A i \in Idx : dpc[i] # "failed" /\ \A k \in Cands(i) : epc[i][k] # "raised"
    /\ run_pc # "failed"
    /\ run_pc = "done" => \A i \in Tasks : Cands(i) # {} /\ \A k \in Cands(i) : epc[i][k] = "done"
    /\ \A i \in Idx :
          (dpc[i] = "done" /\ \A k \in Cands(i) : <<i, k>> \in NetworkFailed)
              => results[i] = <<task_domain(i), <<>> >>

\* run finished; every fetch of one domain failed, and in another domain one
\* fetch failed and one was confirmed
C6_Witness ==
    /\ run_pc = "done"
    /\ \E i, j \in Tasks :
          /\ i # j
          /\ \A k \in Cands(i) : <<i, k>> \in NetworkFailed
          /\ results[i] = <<task_domain(i), <<>> >>
          /\ \E k, m \in Cands(j) : <<j, k>> \in NetworkFailed /\ <<j, m>> \in Confirmed

\* C7: the total of every progress update is the number of non-blank domains.
C7_TotalCountsNonBlank ==
    \A j \in 1..Len(console) :
        console[j].ev = "progress" => console[j].total = Cardinality(Tasks)

\* C8: the j-th progress update, in the order of emission, reports j.
C8_ProgressCountsCompleted ==
    \A j \in 1..Len(ConsoleEvents("progress")) : ConsoleEvents("progress")[j].idx = j

InCriticalSection == {i \in Idx : dpc[i] \in {"write", "release"}}

\* C9: at most one task is inside the sink-append critical section, and it
\* holds the lock.
C9_SinkMutualExclusion ==
    /\ Cardinality(InCriticalSection) <= 1
    /\ InCriticalSection # {} => lock_locked

\* a task is writing a row while another domain with findings has all its
\* results and waits for the event loop
C9_Witness ==
    \E i, j \in Idx :
        /\ i # j
        /\ dpc[i] = "write"
        /\ dpc[j] = "gather"
        /\ Cands(j) # {}
        /\ \A k \in Cands(j) : epc[j][k] = "done"
        /\ \E k \in Cands(j) : <<j, k>> \in Confirmed

\* the number of data rows equal to r
RowCount(r) == Cardinality({j \in 1..Len(DataRows) : DataRows[j].row = r})

\* the number of confirmed candidates whose pair is r
ConfirmedCount(r) ==
    Cardinality({c \in Confirmed : <<task_domain(c[1]), urls[c[1]][c[2]]>> = r})

\* C10: when run has finished the data rows of the sink are the confirmed
\* (domain, url) pairs, one row each, and nothing else.
C10_SinkIsConfirmedPairs ==
    run_pc = "done" =>
        /\ sink[1].row = HEADER_ROW
        /\ Len(DataRows) = Cardinality(Confirmed)
        /\ \A j \in 1..Len(DataRows) : RowCount(DataRows[j].row) = ConfirmedCount(DataRows[j].row)
        /\ \A c \in Confirmed : RowCount(<<task_domain(c[1]), urls[c[1]][c[2]]>>) >= 1

\* run finished with one row: a domain with a confirmed and a rejected
\* candidate, and a domain with no confirmed candidate
C10_Witness ==
    /\ run_pc = "done"
    /\ Len(DataRows) = 1
    /\ \E i, j \in Tasks :
          /\ i # j
          /\ \E k, m \in Cands(i) : <<i, k>> \in Confirmed /\ <<i, m>> \notin Confirmed
          /\ \A k \in Cands(j) : <<j, k>> \notin Confirmed

\* the rows task i is to write: one per url of found, in found's order
RowsDue(i) == [j \in 1..Len(found[i]) |-> <<task_domain(i), found[i][j]>>]

RowsWritten(i) == [j \in 1..Len(RowsOf(i)) |-> RowsOf(i)[j].row]

NonBlank ==
    {i \in Idx : \E j \in 1..Len(domains[i]) : domains[i][j] \notin Whitespace}

\* the n-th of them
NthNonBlank(n) ==
    CHOOSE i \in NonBlank : Cardinality({m \in NonBlank : m <= i}) = n

\* C12: run returns only after every domain task has completed, and its
\* value holds, in input order, one (domain, found) result for each entry that
\* is not blank, the domains with nothing confirmed included, and no result
\* for a blank entry.
C12_OneResultPerDomain ==
    /\ run_result # None => run_pc = "done" /\ \A i \in NonBlank : dpc[i] = "done"
    /\ run_pc = "done" =>
          /\ Len(run_result) = Cardinality(NonBlank)
          /\ \A n \in 1..Len(run_result) :
                run_result[n] = <<strip(domains[NthNonBlank(n)]), found[NthNonBlank(n)]>>

\* run returned for a list with a blank entry and a domain with nothing
\* confirmed: one result, with an empty list
C12_Witness ==
    /\ run_pc = "done"
    /\ Idx \ NonBlank # {}
    /\ Len(run_result) = 1
    /\ run_result[1][2] = <<>>

\* s without its leading and trailing whitespace: from its first to its last
\* character that is not whitespace
Trimmed(s) ==
    LET nb == {j \in 1..Len(s) : s[j] \notin Whitespace}
    IN  IF nb = {} THEN <<>>
        ELSE SubSeq(s, CHOOSE a \in nb : \A b \in nb : a <= b,
                       CHOOSE a \in nb : \A b \in nb : a >= b)

\* u is a url of host h: scheme, "://", h, then a port or a path
UrlOfHost(u, h) ==
    \E scheme \in {HTTPS, HTTP} :
        LET prefix == scheme \o SCHEME_SEP \o h
        IN  /\ Len(u) > Len(prefix)
            /\ SubSeq(u, 1, Len(prefix)) = prefix
            /\ u[Len(prefix) + 1] \in {"/", ":"}

\* what the program did for entry i: a task, candidates, fetches, output
Scanned(i) ==
    \/ dpc[i] # "none"
    \/ urls[i] # <<>>
    \/ epc[i] # <<>>
    \/ RowsOf(i) # <<>>
    \/ \E j \in 1..Len(console) : console[j].task = i

\* C15: a blank entry gets no task, no candidate, no fetch and no output;
\* an entry that is not blank is scanned under its trimmed name: its
\* candidates, its rows and its result carry that name.
C15_BlankNeverScanned ==
    \A i \in Idx :
        /\ i \notin NonBlank => ~Scanned(i)
        /\ i \in NonBlank =>
              /\ run_pc # "init" => dpc[i] # "none"
              /\ dpc[i] \notin {"none", "new"} =>
                    /\ Cands(i) # {}
                    /\ \A k \in Cands(i) : UrlOfHost(urls[i][k], Trimmed(domains[i]))
              /\ \A j \in 1..Len(RowsOf(i)) : RowsOf(i)[j].row[1] = Trimmed(domains[i])
              /\ results[i] # None => results[i][1] = Trimmed(domains[i])

\* the run of a blank entry and an entry with whitespace to trim has
\* finished, with a row for the trimmed name
C15_Witness ==
    /\ run_pc = "done"
    /\ \E i, j \in Idx :
          /\ i \notin NonBlank
          /\ j \in NonBlank
          /\ Trimmed(domains[j]) # domains[j]
          /\ RowsOf(j) # <<>>

\* C18: the task that holds the sink lock has no validation waiting for a
\* permit, holding a permit or fetching; the lock is held inside the block
\* of one row only: it is free again before the next url, and the holder has
\* written at most the row of its current url.
C18_LockNotHeldAcrossIO ==
    /\ lock_locked => InCriticalSection # {}
    /\ \A i \in InCriticalSection :
          /\ \A k \in Cands(i) : epc[i][k] = "done"
          /\ \A k \in Cands(i) : <<i, k>> \notin HoldingPermit /\ <<i, k>> \notin InFlight
          /\ Len(RowsOf(i)) = IF dpc[i] = "write" THEN widx[i] - 1 ELSE widx[i]

\* a task holds the lock for its second row while a fetch of another domain
\* is in flight
C18_Witness ==
    \E i, j \in Idx :
        /\ i # j
        /\ lock_locked
        /\ dpc[i] = "write"
        /\ widx[i] = 2
        /\ \E k \in Cands(j) : <<j, k>> \in InFlight

\* C20: in the sink the rows of one domain task are contiguous: no row of
\* another task lies between two of them.
C20_RowsContiguous ==
    \A a, c \in 1..Len(DataRows) :
        (a < c /\ DataRows[a].task = DataRows[c].task) =>
            \A b \in a..c : DataRows[b].task = DataRows[a].task

\* a task has written the first of its two rows and is about to take the
\* lock again, while another domain with two confirmed urls has all its
\* results and waits for the event loop
C20_Witness ==
    \E i, j \in Idx :
        /\ i # j
        /\ dpc[i] = "acquire"
        /\ widx[i] = 2
        /\ Len(RowsOf(i)) = 1
        /\ dpc[j] = "gather"
        /\ Cardinality(Cands(j)) >= 2
        /\ \A k \in Cands(j) : <<j, k>> \in Confirmed

\* what entry i must yield, from the input and the responses alone: the
\* candidates of its trimmed name whose response is a confirmation, in the
\* generator's order
ExpectedFound(i) ==
    LET us == Candidates(Trimmed(domains[i]), deep)
        F[k \in 0..Len(us)] ==
            IF k = 0 THEN <<>>
            ELSE IF check_endpoint(us[k], eresp[i][k]) = us[k]
                 THEN Append(F[k - 1], us[k])
                 ELSE F[k - 1]
    IN  F[Len(us)]

ExpectedResult ==
    [n \in 1..Cardinality(NonBlank) |->
        <<Trimmed(domains[NthNonBlank(n)]), ExpectedFound(NthNonBlank(n))>>]

ExpectedRows ==
    UNION { {<<Trimmed(domains[i]), ExpectedFound(i)[j]>> : j \in 1..Len(ExpectedFound(i))}
            : i \in NonBlank }

\* C19: the value run returns and the set of data rows of the sink are a
\* function of the input list, the mode and the response of each fetch; the
\* order in which fetches return and tasks run has no part in them.
C19_OutcomeIndependentOfSchedule ==
    run_pc = "done" =>
        /\ run_result = ExpectedResult
        /\ {DataRows[j].row : j \in 1..Len(DataRows)} = ExpectedRows

\* run finished after the second domain was written before the first, and
\* after a domain's second validation returned before its first
C19_Witness ==
    /\ run_pc = "done"
    /\ Len(DataRows) >= 3
    /\ DataRows[1].task = 2
    /\ \E i \in Tasks : Len(found[i]) = 2 /\ done_order[i] = <<2, 1>>

\* the two input errors, read off the command line
FileMissing == args.list = "missing"

NoDomainsSupplied ==
    /\ args.list # "missing"
    /\ args.domains = <<>>
    /\ args.list = "file" => args.lines = <<>>

\* C13: the exit code of the process is 1 after an input error and 0 in
\* every other case, a completed scan in particular.
C13_ExitCode ==
    main_pc = "exited" =>
        exit_code = IF FileMissing \/ NoDomainsSupplied THEN 1 ELSE 0

\* C14: on an input error main reports and returns 1 without entering run:
\* no task, candidate or fetch exists, the limiter and the lock are
\* untouched, the sink is empty and the only output is the error line.
C14_InputErrorBeforeRun ==
    (FileMissing \/ NoDomainsSupplied) =>
        /\ run_pc = "off"
        /\ domains = <<>> /\ AllCands = {} /\ ready = <<>>
        /\ sem_value = SemPermits /\ sem_waiters = <<>> /\ ~lock_locked
        /\ sink = <<>>
        /\ run_result = None
        /\ main_pc \in {"start", "returned", "exited"}
        /\ main_pc # "start" =>
              /\ main_ret = IntValue(1)
              /\ Len(console) = 1 /\ console[1].ev = "error"

\* the process has exited on a list file that does not exist, with
\* positional domains on the command line
C14_Witness ==
    /\ main_pc = "exited"
    /\ FileMissing
    /\ args.domains # <<>>

\* the first position of u in us
FirstAt(us, u) == CHOOSE j \in 1..Len(us) : us[j] = u /\ \A m \in 1..(j - 1) : us[m] # u

\* the k-th url of the cross product: tuple by tuple, path by path, with the
\* port written unless it is unset, 80 on http or 443 on https
CrossUrl(domain, dp, k) ==
    LET eps == ENDPOINTS_BASIC \o (IF dp THEN ENDPOINTS_DEEP_EXTRA ELSE <<>>)
        t == protocols_ports(dp)[((k - 1) \div Len(eps)) + 1]
        plain == t[2] = NoPort \/ (t[1] = HTTP /\ t[2] = 80) \/ (t[1] = HTTPS /\ t[2] = 443)
        b == t[1] \o SCHEME_SEP \o domain \o (IF plain THEN <<>> ELSE <<":">> \o IntToStr(t[2]))
    IN  rstripSlash(b) \o eps[((k - 1) % Len(eps)) + 1]

\* C16: the generator's list has no duplicate and is the cross product
\* (tuples outside, paths inside, port omitted when unset, 80 on http or 443
\* on https) reduced to first occurrences, in the order of those first
\* occurrences; the (http, 80) tuple of deep mode repeats the urls of
\* (http, unset) and adds none; the list has 33 urls in basic mode and 95 in
\* deep mode.  The operator the run uses gives the same list.
C16_GeneratorDedupCrossProduct ==
    gen.pc = "done" =>
        LET out == gen.result
            n == Len(endpoints(gen.deep))
            size == Len(protocols_ports(gen.deep)) * n
        IN  /\ Len(gen.urls) = size
            /\ \A k \in 1..size : gen.urls[k] = CrossUrl(gen.domain, gen.deep, k)
            /\ \A a, b \in 1..Len(out) : a # b => out[a] # out[b]
            /\ {out[a] : a \in 1..Len(out)} = {gen.urls[k] : k \in 1..size}
            /\ \A a \in 1..(Len(out) - 1) :
                  FirstAt(gen.urls, out[a]) < FirstAt(gen.urls, out[a + 1])
            /\ gen.deep => \A e \in 1..n : gen.urls[3 * n + e] = gen.urls[n + e]
            /\ Len(out) = IF gen.deep THEN 95 ELSE 33
            /\ out = build_urls_for_domain(gen.domain, gen.deep)

\* a deep call for a name with a trailing slash has returned: 114 urls were
\* built and 19 of them dropped as duplicates
C16_Witness ==
    /\ gen.pc = "done"
    /\ gen.deep
    /\ gen.domain = <<"a", "/">>
    /\ Len(gen.urls) = 114
    /\ Len(gen.result) = 95

\* C17: when every fetch returns, run completes: every validation got its
\* permit and returned it, nothing is left waiting for SEM and the sink lock
\* is free.
C17_RunCompletes ==
    <>(/\ run_pc = "done"
       /\ AllCands = Returned
       /\ sem_waiters = <<>>
       /\ sem_value = SemPermits
       /\ ~lock_locked)

\* run completed for two domains with more candidates than SEM has permits
C17_Witness ==
    /\ run_pc = "done"
    /\ Cardinality(Tasks) = MaxDomains
    /\ Cardinality(AllCands) > SemPermits
    /\ AllCands = Returned
    /\ sem_value = SemPermits

====
